---- MODULE Spec2Model ----
(***************************************************************************)
(* Indexer manager (StartManager), the sync and sanity-check guard that    *)
(* wraps every target listener (addSyncAndSanityCheck /                    *)
(* doSyncAndSanityCheck) and the asynchronous fan-out of the event stream  *)
(* to the target backends.                                                 *)
(***************************************************************************)
EXTENDS Integers, Sequences, FiniteSets, TLC

\* ------------------------------------------------------------------------
\* Bounds of the model
\* ------------------------------------------------------------------------
MaxHeight == 3          \* block heights 1..MaxHeight
MaxEvents == 2          \* events the state machine gives to the root listener
MaxPersisted == 1       \* initializers report lastBlockPersisted in -1..MaxPersisted
MaxCalls == 3           \* calls a caller makes directly into a target's listener

TargetNames == {"a", "b"}
Modules == {"bank", "staking"}
Types == {"postgres", "audit", "unknown"}
Heights == 1..MaxHeight

\* the process-wide registry of target types (filled before the manager runs):
\* the registered types, and whether the backend listener a type's initializer
\* builds has its StartBlock slot set
indexerRegistry == {"postgres", "audit"}

BackendListener(type) == [StartBlock |-> type # "audit"]

\* ------------------------------------------------------------------------
\* Errors: an error value is a record; Nil is Go's nil error
\* ------------------------------------------------------------------------
Nil == [kind |-> "nil", persisted |-> 0, height |-> 0]

Err(kind) == [kind |-> kind, persisted |-> 0, height |-> 0]

\* fmt.Errorf("... last block persisted: %d, current block height: %d", ...)
OutOfSyncError(lastBlockPersisted, height) ==
    [kind |-> "out_of_sync", persisted |-> lastBlockPersisted, height |-> height]

\* ------------------------------------------------------------------------
\* Module filters
\* ------------------------------------------------------------------------
FilterAll == [Include |-> {}, Exclude |-> {}]
FilterChoices ==
    { FilterAll,
      [Include |-> {"bank"}, Exclude |-> {}],
      [Include |-> {}, Exclude |-> {"bank"}],
      [Include |-> {"bank"}, Exclude |-> {"staking"}] }

\* Filter.Validate(): a rule set with both an include and an exclude list is
\* self-contradictory
FilterValidate(f) ==
    IF f.Include # {} /\ f.Exclude # {} THEN Err("invalid_filter") ELSE Nil

\* ModuleFilterConfig.ToFunction(): does the filter admit module m
Admits(f, m) ==
    IF f.Include # {} THEN m \in f.Include
    ELSE IF f.Exclude # {} THEN m \notin f.Exclude
    ELSE TRUE

\* combineModuleFilters: the union of the filters, as the set of admitted modules
combineModuleFilters(fs) ==
    [Admitted |-> {m \in Modules : \E i \in DOMAIN fs : Admits(fs[i], m)}]

RootAdmits(root, m) == m \in root.Admitted

\* ------------------------------------------------------------------------
\* Events and listeners
\* ------------------------------------------------------------------------
StartBlockEv(h) == [type |-> "StartBlock", height |-> h, module |-> "-"]
WriteEv(m) == [type |-> "Write", height |-> 0, module |-> m]
CommitEv == [type |-> "Commit", height |-> 0, module |-> "-"]

Events == {StartBlockEv(h) : h \in Heights} \cup {WriteEv(m) : m \in Modules} \cup {CommitEv}

\* ManagerResult{}: the zero value
EmptyResult == [Listener |-> [set |-> FALSE, targets |-> {}],
                ModuleFilter |-> [Admitted |-> {}]]

\* ------------------------------------------------------------------------
\* Configuration values given as ManagerOptions.Config
\* ------------------------------------------------------------------------
TargetConfigs == [Type : Types, Filter : FilterChoices]

\* configurations of no target, of one target and of two targets
TargetMaps == UNION {[S -> TargetConfigs] : S \in {{}, {"a"}, TargetNames}}

\* kind: the dynamic type of the value; decodes: json.Marshal / json.Unmarshal
\* succeed on it; Target: the targets it decodes to
ConfigValues ==
    {[kind |-> k, decodes |-> TRUE, Target |-> tm] : k \in {"map", "raw"}, tm \in TargetMaps}
    \cup {[kind |-> k, decodes |-> FALSE, Target |-> <<>>] : k \in {"map", "raw"}}
    \cup {[kind |-> "other", decodes |-> FALSE, Target |-> <<>>]}

\* an order on the module filters
FilterRank(f) == 2 * Cardinality(f.Include) + Cardinality(f.Exclude)

\* the options explored: every configuration of one target; configurations of
\* two targets are given as a map, without a context, and name no "audit"
\* target; of two configurations that differ only in which target is called
\* "a" and which "b", one is explored
Explored(cfg, context) ==
    Cardinality(DOMAIN cfg.Target) > 1 =>
        /\ cfg.kind = "map"
        /\ context = "nil"
        /\ \A t \in DOMAIN cfg.Target : cfg.Target[t].Type # "audit"
        /\ FilterRank(cfg.Target["a"].Filter) <= FilterRank(cfg.Target["b"].Filter)

\* unmarshalConfig dropping the error of json.Unmarshal
unmarshalConfig_IgnoreJSONError(cfg) ==
    IF cfg.kind \notin {"map", "raw"} THEN Err("cant_convert") ELSE Nil

\* unmarshalConfig: the error it returns
unmarshalConfig(cfg) ==
    IF cfg.kind \notin {"map", "raw"} THEN Err("cant_convert")
    ELSE IF ~cfg.decodes THEN Err("json")
    ELSE Nil

\* what the initializer of a type can return: the backend listener, the height
\* it persisted last, and an error
InitResults(type) ==
    [Listener : {BackendListener(type)},
     LastBlockPersisted : -1..MaxPersisted,
     err : {Nil, Err("init")}]

\* ------------------------------------------------------------------------
\* Sync and sanity-check guard
\* ------------------------------------------------------------------------
\* doSyncAndSanityCheck reporting a gap only, not a target that is ahead
doSyncAndSanityCheck_GapOnly(lbp, height) ==
    IF lbp = 0
    THEN IF height = 1
         THEN [sync |-> FALSE, err |-> Nil]
         ELSE [sync |-> TRUE, err |-> Nil]
    ELSE IF lbp + 1 < height
         THEN [sync |-> FALSE, err |-> OutOfSyncError(lbp, height)]
         ELSE [sync |-> FALSE, err |-> Nil]

\* doSyncAndSanityCheck without the catch-up sync
doSyncAndSanityCheck_NoCatchUp(lbp, height) ==
    IF lbp = 0
    THEN [sync |-> FALSE, err |-> Nil]
    ELSE IF lbp + 1 # height
         THEN [sync |-> FALSE, err |-> OutOfSyncError(lbp, height)]
         ELSE [sync |-> FALSE, err |-> Nil]

\* doSyncAndSanityCheck comparing the persisted height itself with the block's
doSyncAndSanityCheck_OffByOne(lbp, height) ==
    IF lbp = 0
    THEN IF height = 1
         THEN [sync |-> FALSE, err |-> Nil]
         ELSE [sync |-> TRUE, err |-> Nil]
    ELSE IF lbp # height
         THEN [sync |-> FALSE, err |-> OutOfSyncError(lbp, height)]
         ELSE [sync |-> FALSE, err |-> Nil]

\* doSyncAndSanityCheck without the genesis case
doSyncAndSanityCheck_AlwaysCatchUp(lbp, height) ==
    IF lbp = 0
    THEN [sync |-> TRUE, err |-> Nil]
    ELSE IF lbp + 1 # height
         THEN [sync |-> FALSE, err |-> OutOfSyncError(lbp, height)]
         ELSE [sync |-> FALSE, err |-> Nil]

\* doSyncAndSanityCheck: sync = the catch-up sync (decoding.Sync) is called
\* and its result returned; otherwise err is the result
doSyncAndSanityCheck(lbp, height) ==
    IF lbp = 0
    THEN IF height = 1
         THEN [sync |-> FALSE, err |-> Nil]
         ELSE [sync |-> TRUE, err |-> Nil]
    ELSE IF lbp + 1 # height
         THEN [sync |-> FALSE, err |-> OutOfSyncError(lbp, height)]
         ELSE [sync |-> FALSE, err |-> Nil]

\* what a backend callback returns when it is invoked
BackendRet(berr) == IF berr THEN Err("backend") ELSE Nil

\* the backend callback called without the test of the slot
CallSlot_Unchecked(slotSet, berr) ==
    [ret |-> BackendRet(berr), forwarded |-> TRUE]

\* the backend callback behind a slot: not called when the slot is unset
CallSlot(slotSet, berr) ==
    [ret |-> IF slotSet /\ berr THEN Err("backend") ELSE Nil, forwarded |-> slotSet]

\* the closure never setting initialized
guardStartBlock_NoLatch(init, checkErr, slotSet, berr) ==
    IF ~init /\ checkErr # Nil
    THEN [ret |-> checkErr, initialized |-> FALSE, forwarded |-> FALSE]
    ELSE [ret |-> CallSlot(slotSet, berr).ret, initialized |-> init,
          forwarded |-> CallSlot(slotSet, berr).forwarded]

\* the closure calling the backend before it returns the error of the check
guardStartBlock_ForwardOnError(init, checkErr, slotSet, berr) ==
    IF ~init /\ checkErr # Nil
    THEN [ret |-> checkErr, initialized |-> FALSE,
          forwarded |-> CallSlot(slotSet, berr).forwarded]
    ELSE [ret |-> CallSlot(slotSet, berr).ret, initialized |-> TRUE,
          forwarded |-> CallSlot(slotSet, berr).forwarded]

\* the closure dropping the block-start, and the error, when the check fails
guardStartBlock_SwallowError(init, checkErr, slotSet, berr) ==
    IF ~init /\ checkErr # Nil
    THEN [ret |-> Nil, initialized |-> FALSE, forwarded |-> FALSE]
    ELSE [ret |-> CallSlot(slotSet, berr).ret, initialized |-> TRUE,
          forwarded |-> CallSlot(slotSet, berr).forwarded]

\* the closure setting initialized before it looks at the error of the check
guardStartBlock_LatchOnError(init, checkErr, slotSet, berr) ==
    IF ~init /\ checkErr # Nil
    THEN [ret |-> checkErr, initialized |-> TRUE, forwarded |-> FALSE]
    ELSE [ret |-> CallSlot(slotSet, berr).ret, initialized |-> TRUE,
          forwarded |-> CallSlot(slotSet, berr).forwarded]

\* the closure addSyncAndSanityCheck puts in the StartBlock slot; checkErr is
\* what doSyncAndSanityCheck returned when it ran
guardStartBlock(init, checkErr, slotSet, berr) ==
    IF ~init /\ checkErr # Nil
    THEN [ret |-> checkErr, initialized |-> FALSE, forwarded |-> FALSE]
    ELSE [ret |-> CallSlot(slotSet, berr).ret, initialized |-> TRUE,
          forwarded |-> CallSlot(slotSet, berr).forwarded]

\* addSyncAndSanityCheck without the early return for -1
addSyncAndSanityCheck_Always(lbp, wrapped) == <<"guard">> \o wrapped

\* addSyncAndSanityCheck putting the guard directly upstream of the backend
addSyncAndSanityCheck_Inner(lbp, wrapped) ==
    IF lbp = -1 THEN wrapped
    ELSE SubSeq(wrapped, 1, Len(wrapped) - 1) \o <<"guard", wrapped[Len(wrapped)]>>

\* addSyncAndSanityCheck: the wrappers of a target's listener, outermost
\* first, given the wrappers it is handed
addSyncAndSanityCheck(lbp, wrapped) ==
    IF lbp = -1 THEN wrapped ELSE <<"guard">> \o wrapped

\* Filter.Apply: wraps the listener with the module filter
FilterApply(wrapped) == <<"filter">> \o wrapped

\* the module-filter wrapper around a per-write callback
filterWrite(f, m, berr) ==
    IF Admits(f, m) THEN CallSlot(TRUE, berr) ELSE [ret |-> Nil, forwarded |-> FALSE]

\* the modules decoding.Sync replays to the listener, in the resolver's order
ModuleOrder == <<"bank", "staking">>

SyncReplay(f) ==
    SelectSeq(ModuleOrder, LAMBDA m : Admits(f, m))

\* ------------------------------------------------------------------------
\* Kinds (package indexerbase): type Kind int
\* ------------------------------------------------------------------------
InvalidKind == 0
StringKind == 1
BytesKind == 2
Int8Kind == 3
Uint8Kind == 4
Int16Kind == 5
Uint16Kind == 6
Int32Kind == 7
Uint32Kind == 8
Int64Kind == 9
Uint64Kind == 10
IntegerKind == 11
DecimalKind == 12
BoolKind == 13
TimeKind == 14
DurationKind == 15
Float32Kind == 16
Float64Kind == 17
Bech32AddressKind == 18
EnumKind == 19
JSONKind == 20

\* the Kind values explored: every declared kind and KindMargin integers on
\* each side of them
KindMargin == 2
KindValues == (InvalidKind - KindMargin)..(JSONKind + KindMargin)

\* Go values, as far as a type assertion or a type switch can tell them apart:
\* the dynamic type of the value (GoNil for the nil interface value), and
\* whether that type has a String() string method. The predeclared types and
\* json.RawMessage have none; time.Time and time.Duration have one, and so
\* have math.Int (a struct) and sdk.AccAddress (defined as []byte)
GoNil == "nil"
GoTypes ==
    {GoNil, "string", "[]byte", "int8", "uint8", "int16", "uint16", "int32", "uint32",
     "int64", "uint64", "int", "float32", "float64", "bool", "time.Time",
     "time.Duration", "json.RawMessage", "map[string]interface{}", "math.Int",
     "sdk.AccAddress"}
StringerTypes == {"time.Time", "time.Duration", "math.Int", "sdk.AccAddress"}
GoValues == {[type |-> ty, stringer |-> ty \in StringerTypes] : ty \in GoTypes}

\* value.(T) for a concrete type T: the dynamic type is identical to T
TypeIs(value, ty) == value.type = ty

\* value.(fmt.Stringer)
IsStringer(value) == value.stringer

\* Validate accepting every positive kind
Validate_NoUpperBound(t) ==
    IF t <= InvalidKind THEN Err("unknown_type") ELSE Nil

\* func (t Kind) Validate() error
Validate(t) ==
    IF t <= InvalidKind THEN Err("unknown_type")
    ELSE IF t > JSONKind THEN Err("invalid_type")
    ELSE Nil

\* the result of a case of ValidateValueType whose test of the value is ok
ExpectType(ok) == IF ok THEN Nil ELSE Err("value_type")

\* ValidateValueType with IntegerKind treated like DecimalKind, and TimeKind
\* satisfied by any fmt.Stringer
ValidateValueType_Loose(t, value) ==
    CASE t \in {StringKind, IntegerKind, DecimalKind, EnumKind} ->
             ExpectType(TypeIs(value, "string") \/ IsStringer(value))
      [] t = BytesKind -> ExpectType(TypeIs(value, "[]byte"))
      [] t = Int8Kind -> ExpectType(TypeIs(value, "int8"))
      [] t = Uint8Kind -> ExpectType(TypeIs(value, "uint8"))
      [] t = Int16Kind -> ExpectType(TypeIs(value, "int16"))
      [] t = Uint16Kind -> ExpectType(TypeIs(value, "uint16"))
      [] t = Int32Kind -> ExpectType(TypeIs(value, "int32"))
      [] t = Uint32Kind -> ExpectType(TypeIs(value, "uint32"))
      [] t = Int64Kind -> ExpectType(TypeIs(value, "int64"))
      [] t = Uint64Kind -> ExpectType(TypeIs(value, "uint64"))
      [] t = BoolKind -> ExpectType(TypeIs(value, "bool"))
      [] t = TimeKind -> ExpectType(TypeIs(value, "time.Time") \/ IsStringer(value))
      [] t = DurationKind -> ExpectType(TypeIs(value, "time.Duration"))
      [] t = Float32Kind -> ExpectType(TypeIs(value, "float32"))
      [] t = Float64Kind -> ExpectType(TypeIs(value, "float64"))
      [] t = Bech32AddressKind ->
             ExpectType(TypeIs(value, "string") \/ TypeIs(value, "[]byte")
                        \/ IsStringer(value))
      [] t = JSONKind -> Nil
      [] OTHER -> Err("invalid_type")

\* func (t Kind) ValidateValueType(value any) error
ValidateValueType(t, value) ==
    CASE t = StringKind -> ExpectType(TypeIs(value, "string") \/ IsStringer(value))
      [] t = BytesKind -> ExpectType(TypeIs(value, "[]byte"))
      [] t = Int8Kind -> ExpectType(TypeIs(value, "int8"))
      [] t = Uint8Kind -> ExpectType(TypeIs(value, "uint8"))
      [] t = Int16Kind -> ExpectType(TypeIs(value, "int16"))
      [] t = Uint16Kind -> ExpectType(TypeIs(value, "uint16"))
      [] t = Int32Kind -> ExpectType(TypeIs(value, "int32"))
      [] t = Uint32Kind -> ExpectType(TypeIs(value, "uint32"))
      [] t = Int64Kind -> ExpectType(TypeIs(value, "int64"))
      [] t = Uint64Kind -> ExpectType(TypeIs(value, "uint64"))
      [] t = IntegerKind ->
             ExpectType(TypeIs(value, "string") \/ IsStringer(value)
                        \/ TypeIs(value, "int64"))
      [] t = DecimalKind -> ExpectType(TypeIs(value, "string") \/ IsStringer(value))
      [] t = BoolKind -> ExpectType(TypeIs(value, "bool"))
      [] t = TimeKind -> ExpectType(TypeIs(value, "time.Time"))
      [] t = DurationKind -> ExpectType(TypeIs(value, "time.Duration"))
      [] t = Float32Kind -> ExpectType(TypeIs(value, "float32"))
      [] t = Float64Kind -> ExpectType(TypeIs(value, "float64"))
      [] t = Bech32AddressKind ->
             ExpectType(TypeIs(value, "string") \/ TypeIs(value, "[]byte")
                        \/ IsStringer(value))
      [] t = EnumKind -> ExpectType(TypeIs(value, "string") \/ IsStringer(value))
      [] t = JSONKind -> Nil
      [] OTHER -> Err("invalid_type")

\* String with the case of DecimalKind missing and EnumKind named like StringKind
String_Incomplete(t) ==
    CASE t = StringKind -> "string"
      [] t = BytesKind -> "bytes"
      [] t = Int8Kind -> "int8"
      [] t = Uint8Kind -> "uint8"
      [] t = Int16Kind -> "int16"
      [] t = Uint16Kind -> "uint16"
      [] t = Int32Kind -> "int32"
      [] t = Uint32Kind -> "uint32"
      [] t = Int64Kind -> "int64"
      [] t = Uint64Kind -> "uint64"
      [] t = IntegerKind -> "integer"
      [] t = BoolKind -> "bool"
      [] t = TimeKind -> "time"
      [] t = DurationKind -> "duration"
      [] t = Float32Kind -> "float32"
      [] t = Float64Kind -> "float64"
      [] t = Bech32AddressKind -> "bech32address"
      [] t = EnumKind -> "string"
      [] t = JSONKind -> "json"
      [] OTHER -> ""

\* func (t Kind) String() string
String(t) ==
    CASE t = StringKind -> "string"
      [] t = BytesKind -> "bytes"
      [] t = Int8Kind -> "int8"
      [] t = Uint8Kind -> "uint8"
      [] t = Int16Kind -> "int16"
      [] t = Uint16Kind -> "uint16"
      [] t = Int32Kind -> "int32"
      [] t = Uint32Kind -> "uint32"
      [] t = Int64Kind -> "int64"
      [] t = Uint64Kind -> "uint64"
      [] t = DecimalKind -> "decimal"
      [] t = IntegerKind -> "integer"
      [] t = BoolKind -> "bool"
      [] t = TimeKind -> "time"
      [] t = DurationKind -> "duration"
      [] t = Float32Kind -> "float32"
      [] t = Float64Kind -> "float64"
      [] t = Bech32AddressKind -> "bech32address"
      [] t = EnumKind -> "enum"
      [] t = JSONKind -> "json"
      [] OTHER -> ""

\* the type switch with a first case of string alone
KindForGoValue_StringOnly(value) ==
    IF TypeIs(value, "string") THEN StringKind
    ELSE IF TypeIs(value, "[]byte") THEN BytesKind
    ELSE IF TypeIs(value, "int8") THEN Int8Kind
    ELSE IF TypeIs(value, "uint8") THEN Uint8Kind
    ELSE IF TypeIs(value, "int16") THEN Int16Kind
    ELSE IF TypeIs(value, "uint16") THEN Uint16Kind
    ELSE IF TypeIs(value, "int32") THEN Int32Kind
    ELSE IF TypeIs(value, "uint32") THEN Uint32Kind
    ELSE IF TypeIs(value, "int64") THEN Int64Kind
    ELSE IF TypeIs(value, "uint64") THEN Uint64Kind
    ELSE IF TypeIs(value, "float32") THEN Float32Kind
    ELSE IF TypeIs(value, "float64") THEN Float64Kind
    ELSE IF TypeIs(value, "bool") THEN BoolKind
    ELSE IF TypeIs(value, "time.Time") THEN TimeKind
    ELSE IF TypeIs(value, "time.Duration") THEN DurationKind
    ELSE JSONKind

\* the type switch taking json.RawMessage for the []byte it is defined as
KindForGoValue_RawAsBytes(value) ==
    IF TypeIs(value, "string") \/ IsStringer(value) THEN StringKind
    ELSE IF TypeIs(value, "[]byte") \/ TypeIs(value, "json.RawMessage") THEN BytesKind
    ELSE IF TypeIs(value, "int8") THEN Int8Kind
    ELSE IF TypeIs(value, "uint8") THEN Uint8Kind
    ELSE IF TypeIs(value, "int16") THEN Int16Kind
    ELSE IF TypeIs(value, "uint16") THEN Uint16Kind
    ELSE IF TypeIs(value, "int32") THEN Int32Kind
    ELSE IF TypeIs(value, "uint32") THEN Uint32Kind
    ELSE IF TypeIs(value, "int64") THEN Int64Kind
    ELSE IF TypeIs(value, "uint64") THEN Uint64Kind
    ELSE IF TypeIs(value, "float32") THEN Float32Kind
    ELSE IF TypeIs(value, "float64") THEN Float64Kind
    ELSE IF TypeIs(value, "bool") THEN BoolKind
    ELSE IF TypeIs(value, "time.Time") THEN TimeKind
    ELSE IF TypeIs(value, "time.Duration") THEN DurationKind
    ELSE JSONKind

\* func KindForGoValue(value any) Kind: a type switch takes the first case
\* that matches, and the case of string and fmt.Stringer is the first
KindForGoValue(value) ==
    IF TypeIs(value, "string") \/ IsStringer(value) THEN StringKind
    ELSE IF TypeIs(value, "[]byte") THEN BytesKind
    ELSE IF TypeIs(value, "int8") THEN Int8Kind
    ELSE IF TypeIs(value, "uint8") THEN Uint8Kind
    ELSE IF TypeIs(value, "int16") THEN Int16Kind
    ELSE IF TypeIs(value, "uint16") THEN Uint16Kind
    ELSE IF TypeIs(value, "int32") THEN Int32Kind
    ELSE IF TypeIs(value, "uint32") THEN Uint32Kind
    ELSE IF TypeIs(value, "int64") THEN Int64Kind
    ELSE IF TypeIs(value, "uint64") THEN Uint64Kind
    ELSE IF TypeIs(value, "float32") THEN Float32Kind
    ELSE IF TypeIs(value, "float64") THEN Float64Kind
    ELSE IF TypeIs(value, "bool") THEN BoolKind
    ELSE IF TypeIs(value, "time.Time") THEN TimeKind
    ELSE IF TypeIs(value, "time.Duration") THEN DurationKind
    ELSE IF TypeIs(value, "json.RawMessage") THEN JSONKind
    ELSE JSONKind

\* ------------------------------------------------------------------------
\* State
\* ------------------------------------------------------------------------
VARIABLES
    optsConfig,          \* ManagerOptions.Config
    optsContext,         \* ManagerOptions.Context: "nil", "live" or "canceled"
    phase,               \* StartManager: "new", "loop", "running", "returned"
    pending,             \* targets of cfg.Target the range loop has not visited
    listeners,           \* the collected listeners, each named by its target
    allModuleFilters,    \* the collected module filters, by target
    initCalls,           \* the initializer calls: their InitParams and the error returned
    chain,               \* per target: the wrappers of its listener
    backendSlot,         \* per target: is the backend's StartBlock slot set
    lastBlockPersisted,  \* per target: captured by the guard closure
    initialized,         \* per target: captured by the guard closure
    result,              \* what StartManager returned
    produced,            \* events the state machine gave to the root listener
    queue,               \* per target: events enqueued, not yet handled
    pc,                  \* per target worker: "idle" or "syncing"
    handled,             \* per target: listener calls made and what they returned
    backendLog,          \* per target: callbacks the backend received
    syncCalls,           \* per target: calls of decoding.Sync
    pipelineErr,         \* the error surfaced to the owner of the pipeline
    kindArgs,            \* the Kind and the Go value the functions of kind.go are called with
    kindRets             \* what each function of kind.go returned, once called

vars == <<optsConfig, optsContext, phase, pending, listeners, allModuleFilters,
          initCalls, chain, backendSlot, lastBlockPersisted, initialized, result,
          produced, queue, pc, handled, backendLog, syncCalls, pipelineErr,
          kindArgs, kindRets>>

kindVars == <<kindArgs, kindRets>>

startVars == <<pending, listeners, allModuleFilters, initCalls, chain, backendSlot,
               lastBlockPersisted, initialized>>

runVars == <<produced, queue, pc, handled, backendLog, syncCalls, pipelineErr>>

Range(s) == {s[i] : i \in 1..Len(s)}

\* no function of kind.go has been called: each return is a set, empty until
\* the function has returned
NotCalled == [Validate |-> {}, ValidateValueType |-> {}, String |-> {}, KindForGoValue |-> {}]

\* StartManager has not been called
NotStarted ==
    /\ phase = "new"
    /\ pending = {}
    /\ listeners = {}
    /\ allModuleFilters = <<>>
    /\ initCalls = {}
    /\ chain = [t \in TargetNames |-> <<>>]
    /\ backendSlot = [t \in TargetNames |-> FALSE]
    /\ lastBlockPersisted = [t \in TargetNames |-> -1]
    /\ initialized = [t \in TargetNames |-> FALSE]
    /\ result = [res |-> EmptyResult, err |-> Nil]
    /\ produced = <<>>
    /\ queue = [t \in TargetNames |-> <<>>]
    /\ pc = [t \in TargetNames |-> "idle"]
    /\ handled = [t \in TargetNames |-> <<>>]
    /\ backendLog = [t \in TargetNames |-> <<>>]
    /\ syncCalls = [t \in TargetNames |-> <<>>]
    /\ pipelineErr = Nil

Init ==
    /\ optsConfig \in ConfigValues
    /\ optsContext \in {"nil", "live"}
    /\ Explored(optsConfig, optsContext)
    /\ NotStarted
    /\ kindArgs = [t |-> InvalidKind, value |-> [type |-> GoNil, stringer |-> FALSE]]
    /\ kindRets = NotCalled

\* ------------------------------------------------------------------------
\* StartManager
\* ------------------------------------------------------------------------
\* ctx taken to be context.Background() whatever the options hold
ctx_Background == "background"

\* ctx := opts.Context, or context.Background() when it is nil
ctx == IF optsContext = "nil" THEN "background" ELSE "opts.Context"

Canceled == optsContext = "canceled"

\* return ManagerResult{}, err
ReturnError(err) ==
    /\ phase' = "returned"
    /\ result' = [res |-> EmptyResult, err |-> err]

\* the configuration error of one target with the filter left unvalidated
targetError_NoValidate(targetCfg) ==
    IF targetCfg.Type \notin indexerRegistry THEN Err("type_not_found") ELSE Nil

\* the configuration error of one target, found before its initializer runs
targetError(targetCfg) ==
    IF targetCfg.Type \notin indexerRegistry THEN Err("type_not_found")
    ELSE FilterValidate(targetCfg.Filter)

\* StartManager up to the range loop
StartManagerBegin ==
    /\ phase = "new"
    /\ IF unmarshalConfig(optsConfig) # Nil
       THEN /\ ReturnError(unmarshalConfig(optsConfig))
            /\ UNCHANGED pending
       ELSE /\ phase' = "loop"
            /\ pending' = DOMAIN optsConfig.Target
            /\ UNCHANGED result
    /\ UNCHANGED <<kindVars, optsConfig, optsContext, listeners, allModuleFilters, initCalls,
                   chain, backendSlot, lastBlockPersisted, initialized>>
    /\ UNCHANGED runVars

\* one iteration of the range loop over cfg.Target (Go visits a map in any order)
StartTarget(t) ==
    /\ phase = "loop"
    /\ t \in pending
    /\ LET targetCfg == optsConfig.Target[t] IN
       IF targetError(targetCfg) # Nil
       THEN /\ ReturnError(targetError(targetCfg))
            /\ UNCHANGED startVars
       ELSE \E initRes \in InitResults(targetCfg.Type) :
            /\ initCalls' = initCalls \cup
                                {[target |-> t, Config |-> targetCfg, Context |-> ctx,
                                  err |-> initRes.err]}
            /\ IF initRes.err # Nil
               THEN /\ ReturnError(initRes.err)
                    /\ UNCHANGED <<pending, listeners, allModuleFilters, chain,
                                   backendSlot, lastBlockPersisted, initialized>>
               ELSE /\ chain' = [chain EXCEPT ![t] =
                                    addSyncAndSanityCheck(initRes.LastBlockPersisted,
                                                          FilterApply(<<"backend">>))]
                    /\ backendSlot' = [backendSlot EXCEPT ![t] = initRes.Listener.StartBlock]
                    /\ lastBlockPersisted' =
                           [lastBlockPersisted EXCEPT ![t] = initRes.LastBlockPersisted]
                    /\ initialized' = [initialized EXCEPT ![t] = FALSE]
                    /\ listeners' = listeners \cup {t}
                    /\ allModuleFilters' =
                           [u \in listeners \cup {t} |->
                               IF u = t THEN targetCfg.Filter ELSE allModuleFilters[u]]
                    /\ pending' = pending \ {t}
                    /\ UNCHANGED <<phase, result>>
    /\ UNCHANGED <<kindVars, optsConfig, optsContext>>
    /\ UNCHANGED runVars

\* after the loop, with the root filter taken from the first target's filter alone
StartManagerFinish_OneFilter ==
    /\ phase = "loop"
    /\ pending = {}
    /\ phase' = "running"
    /\ result' = [res |-> [Listener |-> [set |-> TRUE, targets |-> listeners],
                           ModuleFilter |->
                               combineModuleFilters(
                                   [u \in listeners \cap {"a"} |-> allModuleFilters[u]])],
                  err |-> Nil]
    /\ UNCHANGED <<kindVars, optsConfig, optsContext>>
    /\ UNCHANGED startVars
    /\ UNCHANGED runVars

\* after the loop: multiplex the listeners, combine the filters, return
StartManagerFinish ==
    /\ phase = "loop"
    /\ pending = {}
    /\ phase' = "running"
    /\ result' = [res |-> [Listener |-> [set |-> TRUE, targets |-> listeners],
                           ModuleFilter |-> combineModuleFilters(allModuleFilters)],
                  err |-> Nil]
    /\ UNCHANGED <<kindVars, optsConfig, optsContext>>
    /\ UNCHANGED startVars
    /\ UNCHANGED runVars

\* the owner of the supplied context cancels it
Cancel ==
    /\ optsContext = "live"
    /\ optsContext' = "canceled"
    /\ UNCHANGED <<kindVars, optsConfig, phase, result>>
    /\ UNCHANGED startVars
    /\ UNCHANGED runVars

\* ------------------------------------------------------------------------
\* The running pipeline
\* ------------------------------------------------------------------------
Stopped == pipelineErr # Nil \/ Canceled

\* the module filter of a configured target
FilterOf(t) == optsConfig.Target[t].Filter

\* the root listener with the multiplexer putting the event at the front of the
\* queues
Emit_Prepend(ev) ==
    /\ phase = "running"
    /\ ~Stopped
    /\ Len(produced) < MaxEvents
    /\ produced' = Append(produced, ev)
    /\ queue' = [t \in TargetNames |->
                    IF /\ t \in result.res.Listener.targets
                       /\ ev.type = "Write" => RootAdmits(result.res.ModuleFilter, ev.module)
                    THEN <<ev>> \o queue[t]
                    ELSE queue[t]]
    /\ UNCHANGED <<kindVars, optsConfig, optsContext, phase, result, pc, handled, backendLog,
                   syncCalls, pipelineErr>>
    /\ UNCHANGED startVars

\* the root listener: the root module filter applied to the multiplexer, which
\* appends the event to the queue of every target
Emit(ev) ==
    /\ phase = "running"
    /\ ~Stopped
    /\ Len(produced) < MaxEvents
    /\ produced' = Append(produced, ev)
    /\ queue' = [t \in TargetNames |->
                    IF /\ t \in result.res.Listener.targets
                       /\ ev.type = "Write" => RootAdmits(result.res.ModuleFilter, ev.module)
                    THEN Append(queue[t], ev)
                    ELSE queue[t]]
    /\ UNCHANGED <<kindVars, optsConfig, optsContext, phase, result, pc, handled, backendLog,
                   syncCalls, pipelineErr>>
    /\ UNCHANGED startVars

\* what the guard has to do for the event at the head of the target's queue
CheckOf(t, ev) ==
    IF ev.type = "StartBlock" /\ "guard" \in Range(chain[t]) /\ ~initialized[t]
    THEN doSyncAndSanityCheck(lastBlockPersisted[t], ev.height)
    ELSE [sync |-> FALSE, err |-> Nil]

\* the wrapped listener with the target's module filter left out
ListenerCall_Unfiltered(t, ev, checkErr, berr) ==
    IF ev.type = "StartBlock" /\ "guard" \in Range(chain[t])
    THEN guardStartBlock(initialized[t], checkErr, backendSlot[t], berr)
    ELSE [ret |-> CallSlot(ev.type # "StartBlock" \/ backendSlot[t], berr).ret,
          initialized |-> initialized[t],
          forwarded |-> CallSlot(ev.type # "StartBlock" \/ backendSlot[t], berr).forwarded]

\* the target's wrapped listener called with ev: what it returns, the guard's
\* flag afterwards, and whether the backend callback was invoked
ListenerCall(t, ev, checkErr, berr) ==
    IF ev.type = "StartBlock"
    THEN IF "guard" \in Range(chain[t])
         THEN guardStartBlock(initialized[t], checkErr, backendSlot[t], berr)
         ELSE [ret |-> CallSlot(backendSlot[t], berr).ret,
               initialized |-> initialized[t],
               forwarded |-> CallSlot(backendSlot[t], berr).forwarded]
    ELSE IF ev.type = "Write"
    THEN [ret |-> filterWrite(FilterOf(t), ev.module, berr).ret,
          initialized |-> initialized[t],
          forwarded |-> filterWrite(FilterOf(t), ev.module, berr).forwarded]
    ELSE [ret |-> CallSlot(TRUE, berr).ret,
          initialized |-> initialized[t],
          forwarded |-> CallSlot(TRUE, berr).forwarded]

\* the worker finishes the call for the head of its queue; log is the backend's
\* log when the backend callback is reached
Complete(t, checkErr, berr, log) ==
    LET ev == Head(queue[t])
        r == ListenerCall(t, ev, checkErr, berr)
        n == Len(handled[t]) + 1
    IN /\ initialized' = [initialized EXCEPT ![t] = r.initialized]
       /\ backendLog' = [backendLog EXCEPT ![t] =
                            IF r.forwarded
                            THEN Append(log, [ev |-> ev, src |-> "live", call |-> n,
                                              ret |-> BackendRet(berr)])
                            ELSE log]
       /\ handled' = [handled EXCEPT ![t] = Append(@, [ev |-> ev, ret |-> r.ret])]
       /\ queue' = [queue EXCEPT ![t] = Tail(@)]
       /\ pipelineErr' = IF pipelineErr = Nil THEN r.ret ELSE pipelineErr
       /\ pc' = [pc EXCEPT ![t] = "idle"]

\* the worker of target t takes the next event and its listener handles it
\* without a catch-up sync
Dispatch(t) ==
    /\ phase = "running"
    /\ ~Stopped
    /\ pc[t] = "idle"
    /\ queue[t] # <<>>
    /\ ~CheckOf(t, Head(queue[t])).sync
    /\ \E berr \in BOOLEAN :
           Complete(t, CheckOf(t, Head(queue[t])).err, berr, backendLog[t])
    /\ UNCHANGED <<kindVars, optsConfig, optsContext, phase, result, produced, syncCalls>>
    /\ UNCHANGED <<pending, listeners, allModuleFilters, initCalls, chain, backendSlot,
                   lastBlockPersisted>>

\* the arguments of the decoding.Sync call: the module filter, and no height
NoHeight == 0

SyncCall(t, n) == [ModuleFilter |-> FilterOf(t), upTo |-> NoHeight, call |-> n]

\* the guard of target t calls decoding.Sync, which blocks the worker
BeginSync(t) ==
    /\ phase = "running"
    /\ ~Stopped
    /\ pc[t] = "idle"
    /\ queue[t] # <<>>
    /\ CheckOf(t, Head(queue[t])).sync
    /\ pc' = [pc EXCEPT ![t] = "syncing"]
    /\ syncCalls' = [syncCalls EXCEPT ![t] = Append(@, SyncCall(t, Len(handled[t]) + 1))]
    /\ UNCHANGED <<kindVars, optsConfig, optsContext, phase, result, produced, queue, handled,
                   backendLog, pipelineErr>>
    /\ UNCHANGED startVars

\* what the replay of a successful sync delivers to the backend
Replayed(t, n) ==
    [i \in 1..Len(SyncReplay(FilterOf(t))) |->
        [ev |-> WriteEv(SyncReplay(FilterOf(t))[i]), src |-> "sync", call |-> n,
         ret |-> Nil]]

\* decoding.Sync returns, and the guard goes on with the block-start call
EndSync(t) ==
    /\ pc[t] = "syncing"
    /\ \E serr \in BOOLEAN, berr \in BOOLEAN :
           IF serr
           THEN Complete(t, Err("sync"), berr, backendLog[t])
           ELSE Complete(t, Nil, berr,
                         backendLog[t] \o Replayed(t, Len(handled[t]) + 1))
    /\ UNCHANGED <<kindVars, optsConfig, optsContext, phase, result, produced, syncCalls>>
    /\ UNCHANGED <<pending, listeners, allModuleFilters, initCalls, chain, backendSlot,
                   lastBlockPersisted>>

Next ==
    \/ StartManagerBegin
    \/ \E t \in TargetNames : StartTarget(t)
    \/ StartManagerFinish
    \/ Cancel
    \/ \E ev \in Events : Emit(ev)
    \/ \E t \in TargetNames : Dispatch(t)
    \/ \E t \in TargetNames : BeginSync(t)
    \/ \E t \in TargetNames : EndSync(t)

Spec == Init /\ [][Next]_vars

\* ------------------------------------------------------------------------
\* The functions of kind.go, called on a Kind and a Go value
\* ------------------------------------------------------------------------
managerVars == <<optsConfig, optsContext, phase, result, startVars, runVars>>

\* any Kind value and any Go value; no manager is involved
KindInit ==
    /\ kindArgs \in [t : KindValues, value : GoValues]
    /\ kindRets = NotCalled
    /\ optsConfig = [kind |-> "other", decodes |-> FALSE, Target |-> <<>>]
    /\ optsContext = "nil"
    /\ NotStarted

\* t.Validate()
CallValidate ==
    /\ kindRets.Validate = {}
    /\ kindRets' = [kindRets EXCEPT !.Validate = {Validate(kindArgs.t)}]
    /\ UNCHANGED <<kindArgs, managerVars>>

\* t.ValidateValueType(value)
CallValidateValueType ==
    /\ kindRets.ValidateValueType = {}
    /\ kindRets' = [kindRets EXCEPT
                       !.ValidateValueType = {ValidateValueType(kindArgs.t, kindArgs.value)}]
    /\ UNCHANGED <<kindArgs, managerVars>>

\* t.String()
CallString ==
    /\ kindRets.String = {}
    /\ kindRets' = [kindRets EXCEPT !.String = {String(kindArgs.t)}]
    /\ UNCHANGED <<kindArgs, managerVars>>

\* KindForGoValue(value)
CallKindForGoValue ==
    /\ kindRets.KindForGoValue = {}
    /\ kindRets' = [kindRets EXCEPT !.KindForGoValue = {KindForGoValue(kindArgs.value)}]
    /\ UNCHANGED <<kindArgs, managerVars>>

KindNext ==
    \/ CallValidate
    \/ CallValidateValueType
    \/ CallString
    \/ CallKindForGoValue

KindSpec == KindInit /\ [][KindNext]_vars

\* ------------------------------------------------------------------------
\* The listener StartManager builds for one target, called directly: its
\* caller calls it synchronously, whenever it likes and whatever the listener
\* returned before
\* ------------------------------------------------------------------------
GuardTarget == "a"

\* StartManager has returned for a configuration of the one target GuardTarget
GuardInit ==
    /\ optsConfig \in {c \in ConfigValues :
                          /\ unmarshalConfig(c) = Nil
                          /\ c.kind = "map"
                          /\ DOMAIN c.Target = {GuardTarget}
                          /\ targetError(c.Target[GuardTarget]) = Nil}
    /\ optsContext = "live"
    /\ phase = "running"
    /\ pending = {}
    /\ listeners = {GuardTarget}
    /\ allModuleFilters = [u \in {GuardTarget} |-> optsConfig.Target[u].Filter]
    /\ \E initRes \in InitResults(optsConfig.Target[GuardTarget].Type) :
           /\ initRes.err = Nil
           /\ initCalls = {[target |-> GuardTarget, Config |-> optsConfig.Target[GuardTarget],
                            Context |-> "opts.Context", err |-> Nil]}
           /\ chain = [t \in TargetNames |->
                          IF t = GuardTarget
                          THEN addSyncAndSanityCheck(initRes.LastBlockPersisted,
                                                     FilterApply(<<"backend">>))
                          ELSE <<>>]
           /\ backendSlot = [t \in TargetNames |->
                                t = GuardTarget /\ initRes.Listener.StartBlock]
           /\ lastBlockPersisted = [t \in TargetNames |->
                                       IF t = GuardTarget THEN initRes.LastBlockPersisted
                                       ELSE -1]
    /\ initialized = [t \in TargetNames |-> FALSE]
    /\ result = [res |-> [Listener |-> [set |-> TRUE, targets |-> {GuardTarget}],
                           ModuleFilter |->
                               combineModuleFilters(
                                   [u \in {GuardTarget} |-> optsConfig.Target[u].Filter])],
                  err |-> Nil]
    /\ produced = <<>>
    /\ queue = [t \in TargetNames |-> <<>>]
    /\ pc = [t \in TargetNames |-> "idle"]
    /\ handled = [t \in TargetNames |-> <<>>]
    /\ backendLog = [t \in TargetNames |-> <<>>]
    /\ syncCalls = [t \in TargetNames |-> <<>>]
    /\ pipelineErr = Nil
    /\ kindArgs = [t |-> InvalidKind, value |-> [type |-> GoNil, stringer |-> FALSE]]
    /\ kindRets = NotCalled

\* a call of the listener of GuardTarget with the event ev, from its entry to
\* its return; the catch-up sync, when the guard makes one, returns an error
\* (serr) or replays, and the backend callback returns an error (berr) or not
GuardCall(ev) ==
    /\ Len(handled[GuardTarget]) < MaxCalls
    /\ \E serr \in BOOLEAN, berr \in BOOLEAN :
           LET t == GuardTarget
               chk == CheckOf(t, ev)
               checkErr == IF chk.sync
                           THEN (IF serr THEN Err("sync") ELSE Nil)
                           ELSE chk.err
               r == ListenerCall(t, ev, checkErr, berr)
               n == Len(handled[t]) + 1
               log == IF chk.sync /\ ~serr
                      THEN backendLog[t] \o Replayed(t, n)
                      ELSE backendLog[t]
           IN /\ serr => chk.sync
              /\ berr => r.forwarded
              /\ initialized' = [initialized EXCEPT ![t] = r.initialized]
              /\ syncCalls' = [syncCalls EXCEPT ![t] =
                                  IF chk.sync THEN Append(@, SyncCall(t, n)) ELSE @]
              /\ backendLog' = [backendLog EXCEPT ![t] =
                                   IF r.forwarded
                                   THEN Append(log, [ev |-> ev, src |-> "live", call |-> n,
                                                     ret |-> BackendRet(berr)])
                                   ELSE log]
              /\ handled' = [handled EXCEPT ![t] = Append(@, [ev |-> ev, ret |-> r.ret])]
    /\ UNCHANGED <<kindVars, optsConfig, optsContext, phase, result, produced, queue, pc,
                   pipelineErr>>
    /\ UNCHANGED <<pending, listeners, allModuleFilters, initCalls, chain, backendSlot,
                   lastBlockPersisted>>

GuardNext ==
    \/ Cancel
    \/ \E ev \in Events : GuardCall(ev)

GuardSpec == GuardInit /\ [][GuardNext]_vars

\* ------------------------------------------------------------------------
\* Properties
\* ------------------------------------------------------------------------
IsStartBlock(t, i) == handled[t][i].ev.type = "StartBlock"

\* call i of target t's listener is the first block-start the target observed
FirstStartBlock(t, i) ==
    /\ IsStartBlock(t, i)
    /\ \A j \in 1..(i - 1) : ~IsStartBlock(t, j)

\* positions of the backend's log where it received the event of call i
LiveAt(t, i) ==
    {k \in DOMAIN backendLog[t] :
        /\ backendLog[t][k].call = i
        /\ backendLog[t][k].src = "live"
        /\ backendLog[t][k].ev = handled[t][i].ev}

\* positions of the backend's log filled by a catch-up replay during call i
ReplayAt(t, i) ==
    {k \in DOMAIN backendLog[t] :
        backendLog[t][k].call = i /\ backendLog[t][k].src = "sync"}

\* the decoding.Sync calls made during call i
SyncsAt(t, i) == {k \in DOMAIN syncCalls[t] : syncCalls[t][k].call = i}

GuardError(err) == err.kind \in {"out_of_sync", "sync"}

\* C1: with lastBlockPersisted = N > 0, a first block-start of height H with
\* N+1 # H makes the guard return the out-of-sync error naming N and H, and the
\* backend's block-start callback is not invoked for it
C1_OutOfSyncIsFatal ==
    \A t \in listeners : \A i \in DOMAIN handled[t] :
        ( /\ FirstStartBlock(t, i)
          /\ lastBlockPersisted[t] > 0
          /\ lastBlockPersisted[t] + 1 # handled[t][i].ev.height )
        => /\ handled[t][i].ret.kind = "out_of_sync"
           /\ handled[t][i].ret.persisted = lastBlockPersisted[t]
           /\ handled[t][i].ret.height = handled[t][i].ev.height
           /\ LiveAt(t, i) = {}
           /\ SyncsAt(t, i) = {}

C1_Witness ==
    \E t \in listeners : \E i \in DOMAIN handled[t] :
        /\ FirstStartBlock(t, i)
        /\ lastBlockPersisted[t] = 1
        /\ handled[t][i].ev.height = 3
        /\ handled[t][i].ret = OutOfSyncError(1, 3)

\* C2 as stated: with lastBlockPersisted = 0, a first block-start of height
\* H # 1 makes exactly one catch-up call scoped to the target's filter, and the
\* backend (when it has a block-start callback) then receives H exactly once
C2_AsStated ==
    \A t \in listeners : \A i \in DOMAIN handled[t] :
        ( /\ FirstStartBlock(t, i)
          /\ lastBlockPersisted[t] = 0
          /\ handled[t][i].ev.height # 1
          /\ backendSlot[t] )
        => /\ Cardinality(SyncsAt(t, i)) = 1
           /\ \A k \in SyncsAt(t, i) : syncCalls[t][k].ModuleFilter = FilterOf(t)
           /\ Cardinality(LiveAt(t, i)) = 1

\* C2 (amended): with lastBlockPersisted = 0, a first block-start of height
\* H # 1 makes exactly one catch-up call, scoped to the target's filter; when
\* the replay returns no error only modules the filter admits are replayed, all
\* of it before the block-start, which the backend then receives exactly once;
\* when it returns an error the guard returns it and the backend receives no
\* block-start
C2_CatchUpThenResume ==
    \A t \in listeners : \A i \in DOMAIN handled[t] :
        ( /\ FirstStartBlock(t, i)
          /\ lastBlockPersisted[t] = 0
          /\ handled[t][i].ev.height # 1 )
        => /\ Cardinality(SyncsAt(t, i)) = 1
           /\ Len(syncCalls[t]) = 1
           /\ \A k \in SyncsAt(t, i) : syncCalls[t][k].ModuleFilter = FilterOf(t)
           /\ \A k \in ReplayAt(t, i) : Admits(FilterOf(t), backendLog[t][k].ev.module)
           /\ \A k \in ReplayAt(t, i) : \A l \in LiveAt(t, i) : k < l
           /\ handled[t][i].ret.kind # "sync"
                 => Cardinality(LiveAt(t, i)) = (IF backendSlot[t] THEN 1 ELSE 0)
           /\ handled[t][i].ret.kind = "sync"
                 => LiveAt(t, i) = {} /\ ReplayAt(t, i) = {}

C2_Witness ==
    \E t \in listeners : \E i \in DOMAIN handled[t] :
        /\ FirstStartBlock(t, i)
        /\ lastBlockPersisted[t] = 0
        /\ handled[t][i].ev.height = 3
        /\ handled[t][i].ret = Nil
        /\ ReplayAt(t, i) # {}
        /\ LiveAt(t, i) # {}

\* C3: with lastBlockPersisted = N > 0, a first block-start of height N+1 makes
\* no catch-up call, the guard returns no error of its own and is initialized,
\* and the block-start is forwarded to the backend
C3_ContiguousProceeds ==
    \A t \in listeners : \A i \in DOMAIN handled[t] :
        ( /\ FirstStartBlock(t, i)
          /\ lastBlockPersisted[t] > 0
          /\ handled[t][i].ev.height = lastBlockPersisted[t] + 1 )
        => /\ syncCalls[t] = <<>>
           /\ ~GuardError(handled[t][i].ret)
           /\ initialized[t]
           /\ backendSlot[t] => Cardinality(LiveAt(t, i)) = 1

C3_Witness ==
    \E t \in listeners : \E i \in DOMAIN handled[t] :
        /\ FirstStartBlock(t, i)
        /\ lastBlockPersisted[t] = 1
        /\ handled[t][i].ev.height = 2
        /\ handled[t][i].ret = Nil
        /\ LiveAt(t, i) # {}

\* C4: with lastBlockPersisted = 0, a first block-start of height 1 (genesis)
\* makes no catch-up call, and the guard returns no error of its own and is
\* initialized
C4_GenesisNoCatchUp ==
    \A t \in listeners : \A i \in DOMAIN handled[t] :
        ( /\ FirstStartBlock(t, i)
          /\ lastBlockPersisted[t] = 0
          /\ handled[t][i].ev.height = 1 )
        => /\ syncCalls[t] = <<>>
           /\ ~GuardError(handled[t][i].ret)
           /\ initialized[t]

C4_Witness ==
    \E t \in listeners : \E i \in DOMAIN handled[t] :
        /\ FirstStartBlock(t, i)
        /\ lastBlockPersisted[t] = 0
        /\ handled[t][i].ev.height = 1
        /\ initialized[t]

\* C5: a target whose initializer reported lastBlockPersisted = -1 is never
\* checked and never synced: every block-start it observes is forwarded to the
\* backend and none returns a guard error
C5_UntrackedNeverChecked ==
    \A t \in listeners :
        lastBlockPersisted[t] = -1
        => /\ syncCalls[t] = <<>>
           /\ pc[t] = "idle"
           /\ \A i \in DOMAIN handled[t] :
                  IsStartBlock(t, i)
                  => /\ ~GuardError(handled[t][i].ret)
                     /\ backendSlot[t] => Cardinality(LiveAt(t, i)) = 1

C5_Witness ==
    \E t \in listeners :
        /\ lastBlockPersisted[t] = -1
        /\ Len(handled[t]) = 2
        /\ handled[t][1].ev = StartBlockEv(3)
        /\ handled[t][2].ev = StartBlockEv(1)
        /\ Len(backendLog[t]) = 2

\* C6: the check runs once per target: every block-start after the first one a
\* target observed, whatever its height, is forwarded to the backend with no
\* check and no catch-up call
C6_CheckedOnce ==
    \A t \in listeners : \A i \in DOMAIN handled[t] :
        (IsStartBlock(t, i) /\ ~FirstStartBlock(t, i))
        => /\ ~GuardError(handled[t][i].ret)
           /\ SyncsAt(t, i) = {}
           /\ ReplayAt(t, i) = {}
           /\ backendSlot[t] => Cardinality(LiveAt(t, i)) = 1

C6_Witness ==
    \E t \in listeners :
        /\ lastBlockPersisted[t] = 1
        /\ Len(handled[t]) = 2
        /\ handled[t][1].ev = StartBlockEv(2)
        /\ handled[t][2].ev = StartBlockEv(1)
        /\ LiveAt(t, 2) # {}

\* C7: once a target's guard has returned the out-of-sync error, the backend of
\* that target receives nothing more: neither the failing block-start nor any
\* later event
C7_NothingAfterFatal ==
    \A t \in listeners : \A i \in DOMAIN handled[t] :
        handled[t][i].ret.kind = "out_of_sync"
        => /\ i = Len(handled[t])
           /\ \A k \in DOMAIN backendLog[t] : backendLog[t][k].call < i

C7_Witness ==
    \E t \in listeners :
        /\ Len(handled[t]) = 1
        /\ handled[t][1].ret.kind = "out_of_sync"
        /\ queue[t] # <<>>

\* the configuration has a configuration error: it is no map and no raw JSON,
\* does not decode, or names a target of an unregistered type or with a
\* self-contradictory filter
BadConfig ==
    \/ optsConfig.kind \notin {"map", "raw"}
    \/ ~optsConfig.decodes
    \/ \E t \in DOMAIN optsConfig.Target :
           \/ optsConfig.Target[t].Type \notin indexerRegistry
           \/ /\ optsConfig.Target[t].Filter.Include # {}
              /\ optsConfig.Target[t].Filter.Exclude # {}

\* C8: StartManager returns either an error with the empty ManagerResult, or no
\* error with the root listener over every configured target and the root
\* filter; it returns an error whenever the configuration has a configuration
\* error or an initializer failed
C8_AllOrNothing ==
    /\ result.err # Nil => result.res = EmptyResult
    /\ phase = "returned" => result.err # Nil
    /\ phase = "running"
          => /\ result.err = Nil
             /\ result.res.Listener.set
             /\ result.res.Listener.targets = DOMAIN optsConfig.Target
             /\ \A m \in Modules :
                    RootAdmits(result.res.ModuleFilter, m)
                    <=> \E t \in DOMAIN optsConfig.Target :
                            Admits(optsConfig.Target[t].Filter, m)
             /\ ~BadConfig
             /\ \A c \in initCalls : c.err = Nil

C8_Witness ==
    /\ phase = "returned"
    /\ result.err.kind = "init"
    /\ Cardinality(initCalls) = 2

\* C9 as stated: when the configuration has a configuration error, StartManager
\* fails and no initializer has been invoked
C9_NoIndexerStarts ==
    (phase = "returned" /\ BadConfig) => initCalls = {}

Evs(log) == [i \in 1..Len(log) |-> log[i].ev]

\* the write events the backend received from the live stream
LiveWrites(t) ==
    Evs(SelectSeq(backendLog[t], LAMBDA e : e.src = "live" /\ e.ev.type = "Write"))

\* the write events of a sequence that target t's module filter admits
AdmittedWrites(evs, t) ==
    SelectSeq(evs, LAMBDA e : e.type = "Write" /\ Admits(FilterOf(t), e.module))

\* C10: for every target, the write events its backend has received followed
\* by those still in its queue that its filter admits are exactly the write
\* events given to the root listener that its filter admits: the root filter
\* holds back none of them, and the target's filter lets no other through
C10_DeliveredIffAdmitted ==
    \A t \in listeners :
        phase = "running"
        => LiveWrites(t) \o AdmittedWrites(queue[t], t) = AdmittedWrites(produced, t)

C10_Witness ==
    \E t \in listeners : \E u \in listeners :
        /\ ~Admits(FilterOf(t), "staking")
        /\ produced = <<WriteEv("staking"), WriteEv("bank")>>
        /\ LiveWrites(t) = <<WriteEv("bank")>>
        /\ LiveWrites(u) = <<WriteEv("staking"), WriteEv("bank")>>

\* C11: the module filter StartManager returns is the union of the targets'
\* filters: it admits a module exactly when the filter of at least one target
\* admits it, so with two targets of filters f1 and f2 it admits m iff f1 admits
\* m or f2 admits m
C11_RootFilterIsUnion ==
    phase = "running"
    => /\ DOMAIN allModuleFilters = listeners
       /\ \A t \in listeners : allModuleFilters[t] = optsConfig.Target[t].Filter
       /\ \A m \in Modules :
              RootAdmits(result.res.ModuleFilter, m)
              <=> \E t \in listeners : Admits(allModuleFilters[t], m)

C11_Witness ==
    /\ phase = "running"
    /\ \E t \in listeners : \E u \in listeners :
           /\ Admits(allModuleFilters[t], "bank")
           /\ ~Admits(allModuleFilters[t], "staking")
           /\ ~Admits(allModuleFilters[u], "bank")
           /\ Admits(allModuleFilters[u], "staking")
    /\ RootAdmits(result.res.ModuleFilter, "bank")
    /\ RootAdmits(result.res.ModuleFilter, "staking")

\* the events of a sequence that the root module filter lets through
PassedRoot(evs) ==
    SelectSeq(evs, LAMBDA e : e.type = "Write" => RootAdmits(result.res.ModuleFilter, e.module))

\* the events the backend received from the live stream
LiveEvs(t) == Evs(SelectSeq(backendLog[t], LAMBDA e : e.src = "live"))

\* the listener calls of target t whose event is meant for its backend: a write
\* of a module its filter admits, a block-start its guard let through to a
\* backend that has a block-start callback, any other event
ForBackend(t, h) ==
    /\ h.ev.type = "Write" => Admits(FilterOf(t), h.ev.module)
    /\ h.ev.type = "StartBlock" => backendSlot[t] /\ ~GuardError(h.ret)

\* C12: every target is given the events of the stream once each and in the
\* order produced, whatever the other targets have done so far: the events its
\* listener has handled followed by those still queued for it are the events
\* produced, and its backend has received, in that order and once each, those
\* handled events that are meant for it
C12_PerTargetFifo ==
    phase = "running"
    => \A t \in listeners :
           /\ Evs(handled[t]) \o queue[t] = PassedRoot(produced)
           /\ LiveEvs(t) = Evs(SelectSeq(handled[t], LAMBDA h : ForBackend(t, h)))

C12_Witness ==
    \E t \in listeners : \E u \in listeners :
        /\ produced = <<StartBlockEv(1), WriteEv("bank")>>
        /\ LiveEvs(t) = produced
        /\ handled[u] = <<>>
        /\ queue[u] = produced

\* every error is surfaced: a listener call that returned an error, and a first
\* block-start that is inconsistent with the target's lastBlockPersisted, leave
\* the pipeline with a recorded failure
ErrorsSurfaced ==
    \A t \in listeners : \A i \in DOMAIN handled[t] :
        /\ handled[t][i].ret # Nil => pipelineErr # Nil
        /\ ( /\ FirstStartBlock(t, i)
             /\ lastBlockPersisted[t] > 0
             /\ lastBlockPersisted[t] + 1 # handled[t][i].ev.height )
           => pipelineErr # Nil

\* C13: an error returned by any target's listener, the guard's consistency
\* error included, is recorded as the failure of the pipeline, and from then on
\* the pipeline is stopped: the root listener accepts no event, and no target,
\* healthy or not, takes another event from its queue (a call already in
\* flight in a catch-up sync when the failure happened still returns)
C13_ErrorStopsPipeline ==
    [][ /\ ErrorsSurfaced'
        /\ pipelineErr # Nil
              => /\ pipelineErr' = pipelineErr
                 /\ produced' = produced
                 /\ \A t \in TargetNames :
                        pc[t] = "idle"
                        => /\ pc'[t] = "idle"
                           /\ handled'[t] = handled[t]
                           /\ backendLog'[t] = backendLog[t]
                           /\ syncCalls'[t] = syncCalls[t]
                           /\ queue'[t] = queue[t] ]_vars

C13_Witness ==
    \E t \in listeners : \E u \in listeners :
        /\ pipelineErr = OutOfSyncError(1, 3)
        /\ handled[t] = <<[ev |-> StartBlockEv(3), ret |-> OutOfSyncError(1, 3)]>>
        /\ lastBlockPersisted[u] = -1
        /\ handled[u] = <<>>
        /\ Len(queue[u]) = 2

\* C14 as stated: when the context is canceled while a target's catch-up sync
\* is in flight, the sync returns an error: the guard returns it, the target is
\* not initialized and its backend receives nothing from that call
C14_CancelAbortsSync ==
    [][ \A t \in TargetNames :
            (Canceled /\ pc[t] = "syncing" /\ pc'[t] = "idle")
            => /\ handled'[t][Len(handled'[t])].ret.kind = "sync"
               /\ ~initialized'[t]
               /\ backendLog'[t] = backendLog[t] ]_vars

\* the integers that are declared kinds
ValidKinds == {k \in KindValues : InvalidKind < k /\ k <= JSONKind}

\* C15: t.Validate() returns no error exactly when InvalidKind < t <= JSONKind;
\* for zero, for a negative t and for a t above JSONKind it returns an error
C15_ValidateIffInRange ==
    \A e \in kindRets.Validate :
        /\ e = Nil <=> (InvalidKind < kindArgs.t /\ kindArgs.t <= JSONKind)
        /\ kindArgs.t = 0 => e # Nil
        /\ kindArgs.t < 0 => e # Nil
        /\ kindArgs.t > JSONKind => e # Nil

C15_Witness ==
    /\ kindArgs.t = JSONKind
    /\ kindRets.Validate = {Nil}

\* the Go type the documentation of a kind names as the only one accepted
SameNamedType ==
    (BytesKind :> "[]byte") @@ (Int8Kind :> "int8") @@ (Uint8Kind :> "uint8")
    @@ (Int16Kind :> "int16") @@ (Uint16Kind :> "uint16") @@ (Int32Kind :> "int32")
    @@ (Uint32Kind :> "uint32") @@ (Int64Kind :> "int64") @@ (Uint64Kind :> "uint64")
    @@ (BoolKind :> "bool") @@ (TimeKind :> "time.Time")
    @@ (DurationKind :> "time.Duration") @@ (Float32Kind :> "float32")
    @@ (Float64Kind :> "float64")

\* the documented acceptance set of a declared kind other than JSONKind
Documented(k, v) ==
    CASE k \in {StringKind, DecimalKind, EnumKind} -> v.type = "string" \/ v.stringer
      [] k = IntegerKind -> v.type = "string" \/ v.stringer \/ v.type = "int64"
      [] k = Bech32AddressKind -> v.type = "string" \/ v.type = "[]byte" \/ v.stringer
      [] OTHER -> v.type = SameNamedType[k]

\* C16: for a declared kind other than JSONKind, t.ValidateValueType(value)
\* returns no error exactly when the dynamic type of value is in the documented
\* acceptance set of t: string or fmt.Stringer for String, Decimal and Enum,
\* these or int64 for Integer, string, []byte or fmt.Stringer for
\* Bech32Address, the one Go type of the same name for the other kinds;
\* JSONKind accepts every value
C16_ValueTypeIffDocumented ==
    \A e \in kindRets.ValidateValueType :
        /\ kindArgs.t \in ValidKinds \ {JSONKind}
              => (e = Nil <=> Documented(kindArgs.t, kindArgs.value))
        /\ kindArgs.t = JSONKind => e = Nil

C16_Witness ==
    /\ kindArgs.t = IntegerKind
    /\ kindArgs.value.type = "int64"
    /\ kindRets.ValidateValueType = {Nil}

\* the concrete native types the inference recognizes: string, raw bytes, the
\* fixed-width numerics, boolean, time instant and time span
ConcreteNatives ==
    {"string", "[]byte", "int8", "uint8", "int16", "uint16", "int32", "uint32", "int64",
     "uint64", "float32", "float64", "bool", "time.Time", "time.Duration"}

\* KindForGoValue(value) returned a declared kind that is none of IntegerKind,
\* DecimalKind, Bech32AddressKind and EnumKind
InferredKindAllowed(k) ==
    /\ k \in ValidKinds
    /\ k \notin {IntegerKind, DecimalKind, Bech32AddressKind, EnumKind}

\* C17 as stated: KindForGoValue returns a declared kind that is none of
\* IntegerKind, DecimalKind, Bech32AddressKind and EnumKind, and it returns
\* JSONKind for every value whose type is not a recognized concrete native
C17_AsStated ==
    \A k \in kindRets.KindForGoValue :
        /\ InferredKindAllowed(k)
        /\ kindArgs.value.type \notin ConcreteNatives => k = JSONKind

\* C17 (amended): KindForGoValue returns a declared kind that is none of
\* IntegerKind, DecimalKind, Bech32AddressKind and EnumKind; for a value whose
\* type is not a recognized concrete native it returns StringKind when the
\* type implements fmt.Stringer and JSONKind when it does not
C17_InferenceFallback ==
    \A k \in kindRets.KindForGoValue :
        /\ InferredKindAllowed(k)
        /\ kindArgs.value.type \notin ConcreteNatives
              => k = (IF kindArgs.value.stringer THEN StringKind ELSE JSONKind)

C17_Witness ==
    /\ kindArgs.value = [type |-> "math.Int", stringer |-> TRUE]
    /\ kindRets.KindForGoValue = {StringKind}

\* the canonical lowercase names of the declared kinds, by kind
CanonicalNames ==
    <<"string", "bytes", "int8", "uint8", "int16", "uint16", "int32", "uint32", "int64",
      "uint64", "integer", "decimal", "bool", "time", "duration", "float32", "float64",
      "bech32address", "enum", "json">>

\* C18: t.String() is the canonical lowercase name of t for a declared kind,
\* which is not empty and is the name of no other kind, and it is the empty
\* string for InvalidKind and for every t out of range; so it is not empty
\* exactly when t.Validate() returns no error
C18_StringNamesValidKinds ==
    \A n \in kindRets.String :
        /\ kindArgs.t \in ValidKinds
              => /\ n = CanonicalNames[kindArgs.t]
                 /\ n # ""
                 /\ \A j \in KindValues \ {kindArgs.t} : String(j) # n
        /\ kindArgs.t \notin ValidKinds => n = ""
        /\ \A e \in kindRets.Validate : n # "" <=> e = Nil

C18_Witness ==
    /\ kindArgs.t = Bech32AddressKind
    /\ kindRets.String = {"bech32address"}
    /\ kindRets.Validate = {Nil}

\* the height of the block-start that call n of target t's listener handles
HeightOfCall(t, n) ==
    IF n <= Len(handled[t]) THEN handled[t][n].ev.height ELSE Head(queue[t]).height

\* C19 as stated: the catch-up replay made for a first block-start of height H
\* is bounded at H-1: the decoding.Sync call is given the upper bound H-1
C19_ReplayBoundedBelowH ==
    \A t \in listeners : \A k \in DOMAIN syncCalls[t] :
        syncCalls[t][k].upTo = HeightOfCall(t, syncCalls[t][k].call) - 1

\* C20 as stated: the backend of a target that tracks persistence receives no
\* event of the live stream, of any category, before the guard has completed
\* its check of the first block-start and is initialized
C20_NothingBeforeChecked ==
    \A t \in listeners :
        (lastBlockPersisted[t] # -1 /\ ~initialized[t]) => LiveEvs(t) = <<>>

\* C21 as stated: once the check or the catch-up sync of a target has returned
\* an error, no later block-start runs them again: no later call makes a
\* catch-up call, and the target never passes the check
C21_FailedCheckNotRetried ==
    \A t \in listeners : \A i \in DOMAIN handled[t] :
        GuardError(handled[t][i].ret)
        => /\ \A j \in DOMAIN handled[t] : j > i => SyncsAt(t, j) = {}
           /\ ~initialized[t]

\* an initialized guard has handled a block-start without an error of the
\* check or of the catch-up sync
InitializedByCheck ==
    \A t \in listeners :
        initialized[t]
        => \E i \in DOMAIN handled[t] : IsStartBlock(t, i) /\ ~GuardError(handled[t][i].ret)

\* C22: the state of a target's guard is monotone: initialized is false until
\* a block-start whose check and catch-up sync returned no error, becomes true
\* in that very call, never goes back to false, and lastBlockPersisted keeps
\* the value the initializer reported
C22_SyncStateMonotone ==
    [][ /\ InitializedByCheck
        /\ InitializedByCheck'
        /\ lastBlockPersisted' = lastBlockPersisted
        /\ \A t \in listeners :
               /\ initialized[t] => initialized'[t]
               /\ (~initialized[t] /\ initialized'[t])
                     => /\ Len(handled'[t]) = Len(handled[t]) + 1
                        /\ handled'[t][Len(handled'[t])].ev.type = "StartBlock"
                        /\ ~GuardError(handled'[t][Len(handled'[t])].ret) ]_vars

C22_Witness ==
    /\ lastBlockPersisted[GuardTarget] = 1
    /\ Len(handled[GuardTarget]) = 3
    /\ handled[GuardTarget][1] = [ev |-> StartBlockEv(3), ret |-> OutOfSyncError(1, 3)]
    /\ handled[GuardTarget][2] = [ev |-> StartBlockEv(2), ret |-> Nil]
    /\ handled[GuardTarget][3].ev = StartBlockEv(1)
    /\ initialized[GuardTarget]

\* C23 as stated: no catch-up sync starts after cancellation: once the context
\* is canceled, no call of a target's listener calls decoding.Sync
C23_NoSyncAfterCancel ==
    [][ Canceled => syncCalls' = syncCalls ]_vars

\* C24 as stated: the listener of a target that tracks persistence is layered
\* module filter, then sync guard, then backend: the filter is the outer
\* wrapper and the guard is directly upstream of the backend
C24_FilterThenGuard ==
    \A t \in listeners :
        lastBlockPersisted[t] # -1 => chain[t] = <<"filter", "guard", "backend">>

\* C24 (amended): the listener of a target that tracks persistence is layered
\* sync guard, then module filter, then backend: the guard is the outer
\* wrapper and the filter is directly upstream of the backend; a target that
\* does not track persistence has the filter and the backend only
C24_GuardThenFilter ==
    \A t \in listeners :
        chain[t] = IF lastBlockPersisted[t] # -1
                   THEN <<"guard", "filter", "backend">>
                   ELSE <<"filter", "backend">>

C24_Witness ==
    \E t \in listeners :
        /\ phase = "running"
        /\ lastBlockPersisted[t] = 0
        /\ chain[t] = <<"guard", "filter", "backend">>
        /\ Len(backendLog[t]) > 0

\* C25: for each target StartManager resolves the type, then validates the
\* filter, then invokes the initializer: an initializer is invoked only for a
\* target of a registered type and a valid filter, and a target with both an
\* unregistered type and an invalid filter is reported for its type
C25_ResolveValidateInit ==
    /\ \A c \in initCalls :
           /\ c.Config = optsConfig.Target[c.target]
           /\ c.Config.Type \in indexerRegistry
           /\ ~(c.Config.Filter.Include # {} /\ c.Config.Filter.Exclude # {})
    /\ ( /\ phase = "returned"
         /\ unmarshalConfig(optsConfig) = Nil
         /\ \A t \in DOMAIN optsConfig.Target :
                optsConfig.Target[t].Type \notin indexerRegistry )
       => result.err.kind = "type_not_found"

C25_Witness ==
    /\ phase = "returned"
    /\ result.err.kind = "invalid_filter"
    /\ DOMAIN optsConfig.Target = {"a", "b"}
    /\ optsConfig.Target["b"].Filter.Include # {}
    /\ optsConfig.Target["b"].Filter.Exclude # {}
    /\ \E c \in initCalls : c.target = "a"
    /\ \A c \in initCalls : c.target # "b"

\* the kind of the same name as a concrete native type
SameNamedKind ==
    ("string" :> StringKind) @@ ("[]byte" :> BytesKind) @@ ("int8" :> Int8Kind)
    @@ ("uint8" :> Uint8Kind) @@ ("int16" :> Int16Kind) @@ ("uint16" :> Uint16Kind)
    @@ ("int32" :> Int32Kind) @@ ("uint32" :> Uint32Kind) @@ ("int64" :> Int64Kind)
    @@ ("uint64" :> Uint64Kind) @@ ("float32" :> Float32Kind)
    @@ ("float64" :> Float64Kind) @@ ("bool" :> BoolKind) @@ ("time.Time" :> TimeKind)
    @@ ("time.Duration" :> DurationKind)

\* C26 as stated: KindForGoValue maps a value of a concrete native type to the
\* kind of that type: time.Time to TimeKind, time.Duration to DurationKind,
\* []byte to BytesKind, bool to BoolKind, each fixed-width numeric type to the
\* kind of the same name, and a string to StringKind
C26_NativeToOwnKind ==
    \A k \in kindRets.KindForGoValue :
        kindArgs.value.type \in ConcreteNatives => k = SameNamedKind[kindArgs.value.type]

\* C27: inference and validation agree: for every value v the kind
\* k = KindForGoValue(v) is a declared kind, k.Validate() returns no error and
\* k.ValidateValueType(v) returns no error
C27_InferenceValidates ==
    \A k \in kindRets.KindForGoValue :
        /\ k \in ValidKinds
        /\ kindArgs.t = k
              => /\ \A e \in kindRets.Validate : e = Nil
                 /\ \A e \in kindRets.ValidateValueType : e = Nil

C27_Witness ==
    /\ kindArgs.value.type = "time.Time"
    /\ kindRets.KindForGoValue = {kindArgs.t}
    /\ kindRets.Validate = {Nil}
    /\ kindRets.ValidateValueType = {Nil}

\* call i of target t's listener invoked the backend callback exactly once,
\* with the event of the call, and returned what the backend returned
ForwardedOnce(t, i) ==
    /\ Cardinality(LiveAt(t, i)) = 1
    /\ \A k \in LiveAt(t, i) : handled[t][i].ret = backendLog[t][k].ret

\* C28: the guard changes the block-start callback only. A write the target's
\* filter admits and a commit reach the backend whatever the state of the
\* guard. A block-start whose check passes, or had passed before, invokes the
\* backend's block-start callback exactly once with the same event and returns
\* its result, and returns no error when the backend has no such callback; a
\* block-start whose check or catch-up sync returns an error does not invoke it
C28_GuardFrame ==
    \A t \in listeners : \A i \in DOMAIN handled[t] :
        lastBlockPersisted[t] # -1
        => /\ (handled[t][i].ev.type = "Write" /\ Admits(FilterOf(t), handled[t][i].ev.module))
                 => ForwardedOnce(t, i)
           /\ handled[t][i].ev.type = "Commit" => ForwardedOnce(t, i)
           /\ (IsStartBlock(t, i) /\ ~GuardError(handled[t][i].ret) /\ backendSlot[t])
                 => ForwardedOnce(t, i)
           /\ (IsStartBlock(t, i) /\ ~GuardError(handled[t][i].ret) /\ ~backendSlot[t])
                 => LiveAt(t, i) = {} /\ handled[t][i].ret = Nil
           /\ (IsStartBlock(t, i) /\ GuardError(handled[t][i].ret))
                 => LiveAt(t, i) = {}
           /\ (IsStartBlock(t, i) /\ initialized[t] /\ i = Len(handled[t]))
                 => ~GuardError(handled[t][i].ret)

C28_Witness ==
    /\ lastBlockPersisted[GuardTarget] = 1
    /\ ~backendSlot[GuardTarget]
    /\ Len(handled[GuardTarget]) = 3
    /\ handled[GuardTarget][1].ev = CommitEv
    /\ handled[GuardTarget][1].ret = Err("backend")
    /\ handled[GuardTarget][2] = [ev |-> StartBlockEv(3), ret |-> OutOfSyncError(1, 3)]
    /\ handled[GuardTarget][3] = [ev |-> StartBlockEv(2), ret |-> Nil]
    /\ Len(backendLog[GuardTarget]) = 1

\* C29: when StartManager has succeeded for a configuration of n targets, the
\* initializer of each target has been invoked exactly once, with the
\* configuration of that target and the context of the manager and without an
\* error; the root listener multiplexes exactly the n listeners, each guarded
\* (when the target tracks persistence) and filtered; and the root filter is
\* built from exactly the n filters, in whatever order the targets were visited
C29_EachTargetOnce ==
    phase = "running"
    => /\ \A t \in DOMAIN optsConfig.Target :
              /\ Cardinality({c \in initCalls : c.target = t}) = 1
              /\ \A c \in initCalls :
                     c.target = t
                     => /\ c.Config = optsConfig.Target[t]
                        /\ c.Context = (IF optsContext = "nil" THEN "background"
                                        ELSE "opts.Context")
                        /\ c.err = Nil
              /\ chain[t] \in {<<"guard", "filter", "backend">>, <<"filter", "backend">>}
              /\ "guard" \in Range(chain[t]) <=> lastBlockPersisted[t] # -1
       /\ Cardinality(initCalls) = Cardinality(DOMAIN optsConfig.Target)
       /\ listeners = DOMAIN optsConfig.Target
       /\ result.res.Listener.targets = DOMAIN optsConfig.Target
       /\ DOMAIN allModuleFilters = DOMAIN optsConfig.Target
       /\ result.res.ModuleFilter =
              combineModuleFilters([t \in DOMAIN optsConfig.Target |->
                                       optsConfig.Target[t].Filter])

C29_Witness ==
    /\ phase = "running"
    /\ DOMAIN optsConfig.Target = {"a", "b"}
    /\ Cardinality(initCalls) = 2
    /\ optsConfig.Target["a"].Filter # optsConfig.Target["b"].Filter
    /\ lastBlockPersisted["a"] # lastBlockPersisted["b"]

====
